---- MODULE Spec2Model ----
(***************************************************************************)
(* The front end of simple-parser: the Tokenizer (token.py) and the        *)
(* recursive-descent / precedence-climbing Parser (parser.py) with the     *)
(* AST nodes it builds (expression.py, statement.py) and the type          *)
(* descriptors it resolves (types.py).                                     *)
(*                                                                         *)
(* Source text is a sequence of one-character strings.  The tokenizer is   *)
(* a function of (source, idx, line); the parser is a stack machine whose  *)
(* frames are the activations of the Parser's methods.                     *)
(***************************************************************************)
EXTENDS Integers, Sequences, FiniteSets, TLC

VARIABLES source, idx, line, token, errors, stack, ret, status

vars == <<source, idx, line, token, errors, stack, ret, status>>

(***************************************************************************)
(* Bounds of the model.                                                    *)
(***************************************************************************)
\* longest source text of the tokenizer specification, in characters
MaxSrcLen == 4
\* longest free sequence of lexemes given to the parser
MaxLexemes == 2
\* most atoms in a same-tier operator chain
MaxChain == 4
\* capacity of the diagnostics list: a run that would exceed it is cut off
MaxErrors == 4
\* widest integer type constructed; widths run over -MaxWidth..MaxWidth
MaxWidth == 64

(***************************************************************************)
(* token.py: character classes and tables                                  *)
(***************************************************************************)
ascii_digits == {"0", "1", "2", "3", "4", "5", "6", "7", "8", "9"}

ascii_letters ==
    {"a", "b", "c", "d", "e", "f", "g", "h", "i", "j", "k", "l", "m",
     "n", "o", "p", "q", "r", "s", "t", "u", "v", "w", "x", "y", "z",
     "A", "B", "C", "D", "E", "F", "G", "H", "I", "J", "K", "L", "M",
     "N", "O", "P", "Q", "R", "S", "T", "U", "V", "W", "X", "Y", "Z"}

\* str.isdigit() and str.isalpha() are Unicode predicates: beside the ASCII
\* characters they accept, among many others, SUPERSCRIPT TWO (U+00B2) as a
\* digit and LATIN SMALL LETTER E WITH ACUTE (U+00E9) as a letter.  These two
\* characters are written here by their escapes.
isdigit == ascii_digits \cup {"\\u00b2"}

isalpha == ascii_letters \cup {"\\u00e9"}

number_chars == ascii_digits \cup {"_"}

identifier_chars == ascii_letters \cup ascii_digits \cup {"_"}

single_char_literals ==
    [c \in {"(", ")", "[", "]", "{", "}", ",", ".", ";", ":", "~"} |->
       CASE c = "(" -> "LParen"   [] c = ")" -> "RParen"
         [] c = "[" -> "LBracket" [] c = "]" -> "RBracket"
         [] c = "{" -> "LBrace"   [] c = "}" -> "RBrace"
         [] c = "," -> "Comma"    [] c = "." -> "Dot"
         [] c = ";" -> "Semicolon" [] c = ":" -> "Colon"
         [] c = "~" -> "Tilde"]

keyword_map ==
    [w \in {<<"a", "n", "d">>, <<"o", "r">>, <<"n", "o", "t">>,
            <<"r", "e", "t", "u", "r", "n">>, <<"i", "f">>,
            <<"e", "l", "s", "e">>, <<"v", "a", "r">>, <<"f", "n">>} |->
       CASE w = <<"a", "n", "d">> -> "AndKW"
         [] w = <<"o", "r">> -> "OrKW"
         [] w = <<"n", "o", "t">> -> "NotKW"
         [] w = <<"r", "e", "t", "u", "r", "n">> -> "ReturnKW"
         [] w = <<"i", "f">> -> "IfKW"
         [] w = <<"e", "l", "s", "e">> -> "ElseKW"
         [] w = <<"v", "a", "r">> -> "VarKW"
         [] w = <<"f", "n">> -> "FnKW"]

\* leading character |-> <<plain, assign-form>>
regular_operators ==
    [c \in {"+", "*", "/", "%", "&", "|", "^", "!", "="} |->
       CASE c = "+" -> <<"Plus", "PlusEqual">>
         [] c = "*" -> <<"Star", "StarEqual">>
         [] c = "/" -> <<"Slash", "SlashEqual">>
         [] c = "%" -> <<"Percent", "PercentEqual">>
         [] c = "&" -> <<"Ampersand", "AmpersandEqual">>
         [] c = "|" -> <<"Pipe", "PipeEqual">>
         [] c = "^" -> <<"Caret", "CaretEqual">>
         [] c = "!" -> <<"Bang", "BangEqual">>
         [] c = "=" -> <<"Equal", "EqualEqual">>]

(***************************************************************************)
(* token.py: Token.  A payload is None, an int, a str (its characters) or  *)
(* an UnknownCharacterError (its character).                               *)
(***************************************************************************)
NoneV == [k |-> "None", n |-> 0, s |-> <<>>]
IntV(n) == [k |-> "int", n |-> n, s |-> <<>>]
StrV(s) == [k |-> "str", n |-> 0, s |-> s]
UnknownCharacterError(c) == [k |-> "UnknownCharacterError", n |-> 0, s |-> <<c>>]

Token(type, value, ln) == [type |-> type, value |-> value, line |-> ln]

\* the outcome of one tokenizer call: the token returned (or the exception
\* raised) and the cursor and line counter the call leaves behind
Returned(tok, i, ln) == [exc |-> "none", token |-> tok, idx |-> i, line |-> ln]
Raised(e, i, ln) == [exc |-> e, token |-> Token("Error", NoneV, ln), idx |-> i, line |-> ln]

\* source[a:b] of Python, for 0 <= a and any b
Slice(src, a, b) ==
    LET hi == IF b > Len(src) THEN Len(src) ELSE b
    IN  IF hi <= a THEN <<>> ELSE SubSeq(src, a + 1, hi)

\* Python's int(text) for a text of digits and underscores that starts with
\* a digit: underscores are accepted only singly and between digits
\* (PEP 515); anything else raises ValueError, and so does a text that
\* starts with a digit of isdigit() that is no decimal digit.
RECURSIVE DecimalValue(_, _)
DecimalValue(text, acc) ==
    IF text = <<>> THEN acc
    ELSE IF Head(text) = "_" THEN DecimalValue(Tail(text), acc)
    ELSE DecimalValue(Tail(text),
             10 * acc + (CHOOSE d \in 0..9 :
                 Head(text) = <<"0", "1", "2", "3", "4", "5", "6", "7", "8", "9">>[d + 1]))

int(text) ==
    LET wellFormed ==
            /\ text # <<>>
            /\ text[1] \in ascii_digits
            /\ text[Len(text)] \in ascii_digits
            /\ \A i \in 1..(Len(text) - 1) : ~(text[i] = "_" /\ text[i + 1] = "_")
    IN  [ok |-> wellFormed, n |-> IF wellFormed THEN DecimalValue(text, 0) ELSE 0]

\* while self.idx < len(self.source) and self.source[self.idx] in chars: self.idx += 1
RECURSIVE ScanWhileIn(_, _, _)
ScanWhileIn(src, i, chars) ==
    IF i < Len(src) /\ src[i + 1] \in chars THEN ScanWhileIn(src, i + 1, chars) ELSE i

Tokenizer_match(src, i, c) == i < Len(src) /\ src[i + 1] = c

tokenize_number(src, i, ln) ==
    LET start_idx == i - 1
        end == ScanWhileIn(src, i, number_chars)
        number == int(Slice(src, start_idx, end))
    IN  IF number.ok
        THEN Returned(Token("IntLiteral", IntV(number.n), ln), end, ln)
        ELSE Raised("ValueError", end, ln)

tokenize_identifier(src, i, ln) ==
    LET start_idx == i - 1
        end == ScanWhileIn(src, i, identifier_chars)
        text == Slice(src, start_idx, end)
    IN  IF text \in DOMAIN keyword_map
        THEN Returned(Token(keyword_map[text], NoneV, ln), end, ln)
        ELSE Returned(Token("Identifier", StrV(text), ln), end, ln)

\* the scan of tokenize_string: <<idx, line>> where the while loop stops
RECURSIVE ScanString(_, _, _, _)
ScanString(src, i, ln, close) ==
    IF i < Len(src) /\ src[i + 1] # close
    THEN ScanString(src, i + 1, IF src[i + 1] = "\n" THEN ln + 1 ELSE ln, close)
    ELSE <<i, ln>>

\* a tokenize_string that reports the line on which the literal ends
tokenize_string_end_line(src, i, ln) ==
    LET close == src[i]
        start_idx == i
        stop == ScanString(src, i, ln, close)
        end == stop[1] + 1
        text == Slice(src, start_idx, end - 1)
    IN  Returned(Token("StringLiteral", StrV(text), stop[2]), end, stop[2])

tokenize_string(src, i, ln) ==
    LET close == src[i]
        start_idx == i
        start_line == ln
        stop == ScanString(src, i, ln, close)
        end == stop[1] + 1
        text == Slice(src, start_idx, end - 1)
    IN  Returned(Token("StringLiteral", StrV(text), start_line), end, stop[2])

\* the second if-chain of __call__ (operators, else the Error token); c is
\* the character just read, i the cursor after it, ln the line counter
Operators(src, c, i, ln) ==
    IF c \in DOMAIN regular_operators THEN
        IF Tokenizer_match(src, i, "=")
        THEN Returned(Token(regular_operators[c][2], NoneV, ln), i + 1, ln)
        ELSE Returned(Token(regular_operators[c][1], NoneV, ln), i, ln)
    ELSE IF c = "-" THEN
        IF Tokenizer_match(src, i, ">") THEN Returned(Token("Arrow", NoneV, ln), i + 1, ln)
        ELSE IF Tokenizer_match(src, i, "=") THEN Returned(Token("MinusEqual", NoneV, ln), i + 1, ln)
        ELSE Returned(Token("Minus", NoneV, ln), i, ln)
    ELSE IF c = ">" THEN
        IF Tokenizer_match(src, i, ">") THEN
            IF Tokenizer_match(src, i + 1, "=")
            THEN Returned(Token("RShiftEqual", NoneV, ln), i + 2, ln)
            ELSE Returned(Token("RShift", NoneV, ln), i + 1, ln)
        ELSE IF Tokenizer_match(src, i, "=") THEN Returned(Token("GreaterEqual", NoneV, ln), i + 1, ln)
        ELSE Returned(Token("Greater", NoneV, ln), i, ln)
    ELSE IF c = "<" THEN
        IF Tokenizer_match(src, i, "<") THEN
            IF Tokenizer_match(src, i + 1, "=")
            THEN Returned(Token("LShiftEqual", NoneV, ln), i + 2, ln)
            ELSE Returned(Token("LShift", NoneV, ln), i + 1, ln)
        ELSE IF Tokenizer_match(src, i, "=") THEN Returned(Token("LesserEqual", NoneV, ln), i + 1, ln)
        ELSE Returned(Token("Lesser", NoneV, ln), i, ln)
    ELSE Returned(Token("Error", UnknownCharacterError(c), ln), i, ln)

\* a tokenizer whose cursor moves on at the end of the text
EndOfFile_advancing(i, ln) == Returned(Token("EndOfFile", IntV(i), ln), i + 1, ln)

\* return Token(TokenType.EndOfFile, self.idx, self.line): the cursor is the
\* payload and stays where it is
EndOfFile(i, ln) == Returned(Token("EndOfFile", IntV(i), ln), i, ln)

\* Tokenizer.__call__ from cursor i and line counter ln.  The newline branch
\* of the first if-chain increments the line counter and, having no
\* continue, runs on into the second chain with c = "\n".
RECURSIVE Tokenizer_call(_, _, _)
Tokenizer_call(src, i, ln) ==
    IF i < Len(src) THEN
        LET c == src[i + 1]
            i1 == i + 1
        IN  IF c = " " THEN Tokenizer_call(src, i1, ln)
            ELSE IF c = "\n" THEN Operators(src, c, i1, ln + 1)
            ELSE IF c \in DOMAIN single_char_literals
                 THEN Returned(Token(single_char_literals[c], NoneV, ln), i1, ln)
            ELSE IF c \in isdigit THEN tokenize_number(src, i1, ln)
            ELSE IF c \in isalpha \/ c = "_" THEN tokenize_identifier(src, i1, ln)
            ELSE IF c = "'" \/ c = "\"" THEN tokenize_string(src, i1, ln)
            ELSE Operators(src, c, i1, ln)
    ELSE EndOfFile(i, ln)

(***************************************************************************)
(* types.py                                                                *)
(***************************************************************************)
Reference == 1
Constant_flag == 2

VoidType == [type |-> "void"]
IntegerType(w, signed) == [type |-> "int", width |-> w, signed |-> signed]
FunctionType(ret_type, arg_types) ==
    [type |-> "fn", return_type |-> ret_type, arguments |-> arg_types]

QualifiedType(unqual, flags) == [node |-> "QualifiedType", unqualified |-> unqual, flags |-> flags]

\* a | b on the two flag bits
BitOr(a, b) ==
    (IF a % 2 = 1 \/ b % 2 = 1 THEN 1 ELSE 0)
    + 2 * (IF (a \div 2) % 2 = 1 \/ (b \div 2) % 2 = 1 THEN 1 ELSE 0)

\* a & b of Python's unbounded two's-complement integers (-1 is all ones)
RECURSIVE BitAnd(_, _)
BitAnd(a, b) ==
    IF a = 0 \/ b = 0 THEN 0
    ELSE IF a = -1 THEN b
    ELSE IF b = -1 THEN a
    ELSE (a % 2) * (b % 2) + 2 * BitAnd(a \div 2, b \div 2)

\* the two asserts of IntegerType.__init__
IntegerType_asserts(w, signed) ==
    /\ BitAnd(w, w - 1) = 0
    /\ (w = 1) => ~signed

add_flags(q, flags) == QualifiedType(q.unqualified, BitOr(q.flags, flags))

is_reference(q) == q.flags % 2 = 1

(***************************************************************************)
(* expression.py, statement.py: the AST.  Python's None is NoneE.          *)
(***************************************************************************)
NoneE == [node |-> "None"]
Bool(b) == [node |-> "bool", value |-> b]

Identifier(name) == [node |-> "Identifier", name |-> name]
Constant(kind, value) == [node |-> "Constant", kind |-> kind, value |-> value]
UnaryOperator(operator, expr) ==
    [node |-> "UnaryOperator", operator |-> operator, expr |-> expr]
BinaryOperator(lhs, operator, rhs) ==
    [node |-> "BinaryOperator", lhs |-> lhs, operator |-> operator, rhs |-> rhs]

ExpressionStatement(e) == [node |-> "ExpressionStatement", expr |-> e]
ReturnStatement(e) == [node |-> "ReturnStatement", expr |-> e]
StatementBlock(statements) == [node |-> "StatementBlock", statements |-> statements]
IfStatement(cond, if_, else_) ==
    [node |-> "IfStatement", condition |-> cond, if_clause |-> if_, else_clause |-> else_]
VariableDeclaration(name, tp, initializer) ==
    [node |-> "VariableDeclaration", name |-> name, qualified_type |-> tp,
     initializer |-> initializer]
ModuleDefinition(statements) == [node |-> "ModuleDefinition", statements |-> statements]

\* FunctionDefinition.__init__: the node, and whether its two asserts pass
FunctionDefinition(name, tp, names, code) ==
    [node |-> "FunctionDefinition", name |-> name, function_type |-> tp,
     arg_names |-> names, code |-> code]

FunctionDefinition_asserts(tp, names, code) ==
    /\ Len(tp.arguments) = Len(names)
    /\ (code = NoneE \/ code.node = "StatementBlock")

(***************************************************************************)
(* parser.py: tables and the symbol table                                  *)
(***************************************************************************)
OpInfo(precedence, left_associativity, kind) ==
    [precedence |-> precedence, left_associativity |-> left_associativity, kind |-> kind]

operator_map ==
    [t \in {"Star", "Slash", "Percent", "Plus", "Minus", "LShift", "RShift",
            "Greater", "GreaterEqual", "Lesser", "LesserEqual", "Equal",
            "BangEqual", "Ampersand", "Caret", "Pipe"} |->
       CASE t = "Star" -> OpInfo(0, TRUE, "Multiply")
         [] t = "Slash" -> OpInfo(0, TRUE, "Divide")
         [] t = "Percent" -> OpInfo(0, TRUE, "Modulo")
         [] t = "Plus" -> OpInfo(-1, TRUE, "Add")
         [] t = "Minus" -> OpInfo(-1, TRUE, "Subtract")
         [] t = "LShift" -> OpInfo(-2, TRUE, "LShift")
         [] t = "RShift" -> OpInfo(-2, TRUE, "RShift")
         [] t = "Greater" -> OpInfo(-3, TRUE, "CmpGreater")
         [] t = "GreaterEqual" -> OpInfo(-3, TRUE, "CmpGreaterEqual")
         [] t = "Lesser" -> OpInfo(-3, TRUE, "CmpLesser")
         [] t = "LesserEqual" -> OpInfo(-3, TRUE, "CmpLesserEqual")
         [] t = "Equal" -> OpInfo(-4, TRUE, "CmpEqual")
         [] t = "BangEqual" -> OpInfo(-4, TRUE, "CmpInEqual")
         [] t = "Ampersand" -> OpInfo(-5, TRUE, "Bitand")
         [] t = "Caret" -> OpInfo(-6, TRUE, "Bitxor")
         [] t = "Pipe" -> OpInfo(-7, TRUE, "Bitor")]

SymbolEntry(kind, type) == [kind |-> kind, type |-> type]

i32 == <<"i", "3", "2">>

void_type == QualifiedType(VoidType, 0)

\* Parser.__init__: one root scope holding the built-in i32; no production
\* calls enter_scope or leave_scope or adds an entry, so the table is fixed
symbol_table ==
    << [n \in {i32} |-> SymbolEntry("Type", QualifiedType(IntegerType(32, TRUE), 0))] >>

\* d.get(key) hashes the key: an UnknownCharacterError is a dataclass with
\* eq and no hash, so looking one up raises TypeError
Hashable(key) == key.k # "UnknownCharacterError"

RECURSIVE SearchFrom(_, _)
SearchFrom(key, depth) ==
    IF depth = 0 THEN NoneE
    ELSE IF key.k = "str" /\ key.s \in DOMAIN symbol_table[depth]
         THEN symbol_table[depth][key.s]
         ELSE SearchFrom(key, depth - 1)

search_symbol(key) == SearchFrom(key, Len(symbol_table))

\* a diagnostic string: its fixed text and the payload interpolated into it
Diagnostic(text, arg) == [text |-> text, arg |-> arg]

(***************************************************************************)
(* The parser as a stack machine.  A frame is one activation of a Parser   *)
(* method: fn is the method, pc the place it has reached, the other fields *)
(* its locals.  ret carries the value the last return handed back.         *)
(* status: "ready" (constructed), "running" (inside parse_module), "done"  *)
(* (parse_module returned), or the name of the exception that escaped.     *)
(***************************************************************************)
St == [idx |-> idx, line |-> line, token |-> token, errors |-> errors,
       stack |-> stack, ret |-> ret, status |-> status]

Running(s) == s.status = "running"

Top(s) == s.stack[Len(s.stack)]

\* an exception nobody catches unwinds every frame
Raise(s, e) == [s EXCEPT !.status = e, !.stack = <<>>]

\* self.token = self.tokenizer()
NextToken(s) ==
    IF ~Running(s) THEN s
    ELSE LET r == Tokenizer_call(source, s.idx, s.line)
         IN  IF r.exc = "none"
             THEN [s EXCEPT !.token = r.token, !.idx = r.idx, !.line = r.line]
             ELSE Raise([s EXCEPT !.idx = r.idx, !.line = r.line], r.exc)

\* self.errors.append(d)
Report(s, d) == IF ~Running(s) THEN s ELSE [s EXCEPT !.errors = Append(@, d)]

\* the running method moves on to pc, with its locals set to those of f
Goto(s, f, pc) ==
    IF ~Running(s) THEN s
    ELSE [s EXCEPT !.stack[Len(s.stack)] = [f EXCEPT !.pc = pc]]

\* the running method calls callee and will resume at pc
Call(s, f, pc, callee) ==
    IF ~Running(s) THEN s
    ELSE [s EXCEPT !.stack = Append([@ EXCEPT ![Len(s.stack)] = [f EXCEPT !.pc = pc]], callee)]

\* return self.callee(...): the callee's result is the caller's
TailCall(s, callee) ==
    IF ~Running(s) THEN s
    ELSE [s EXCEPT !.stack[Len(s.stack)] = callee]

\* the running method returns v; parse_module's return ends the parse
Return(s, v) ==
    IF ~Running(s) THEN s
    ELSE [s EXCEPT !.stack = SubSeq(@, 1, Len(@) - 1),
                   !.ret = v,
                   !.status = IF Len(s.stack) = 1 THEN "done" ELSE "running"]

Becomes(s) ==
    /\ Len(s.errors) <= MaxErrors
    /\ idx' = s.idx
    /\ line' = s.line
    /\ token' = s.token
    /\ errors' = s.errors
    /\ stack' = s.stack
    /\ ret' = s.ret
    /\ status' = s.status
    /\ source' = source

At(fn) == status = "running" /\ stack # <<>> /\ stack[Len(stack)].fn = fn

(***************************************************************************)
(* Frames                                                                  *)
(***************************************************************************)
\* what decides the parser's control flow besides its frames: the tokenizer's
\* cursor and line counter and the current token
Mark(s) == <<s.idx, s.line, s.token>>

\* mark: Mark when the current lap of the statement loop began (a history
\* field: the code keeps no such local)
Frame_parse_module ==
    [fn |-> "parse_module", pc |-> "loop", statements |-> <<>>,
     mark |-> <<0, 0, Token("None", NoneV, 0)>>]
Frame_parse_block ==
    [fn |-> "parse_block", pc |-> "loop", statements |-> <<>>,
     mark |-> <<0, 0, Token("None", NoneV, 0)>>]
Frame_parse_statement == [fn |-> "parse_statement", pc |-> "entry", stmt |-> NoneE]
Frame_consume(t, s) == [fn |-> "consume", pc |-> "entry", t |-> t, s |-> s]
Frame_parse_atom == [fn |-> "parse_atom", pc |-> "entry", operator |-> "None"]
Frame_parse_parenthesis == [fn |-> "parse_parenthesis", pc |-> "entry", e |-> NoneE]
Frame_parse_expression(min_prec) ==
    [fn |-> "parse_expression", pc |-> "entry", min_prec |-> min_prec,
     lhs |-> NoneE, info |-> OpInfo(0, TRUE, "None")]
Frame_parse_if ==
    [fn |-> "parse_if", pc |-> "entry", condition |-> NoneE, if_clause |-> NoneE]
Frame_parse_type_expression ==
    [fn |-> "parse_type_expression", pc |-> "entry", name |-> NoneV]
Frame_parse_variable_declaration ==
    [fn |-> "parse_variable_declaration", pc |-> "entry", name |-> NoneV,
     tp |-> NoneE, init |-> NoneE]
Frame_parse_function_definition ==
    [fn |-> "parse_function_definition", pc |-> "entry", name |-> NoneV,
     arg_names |-> <<>>, arg_types |-> <<>>, arg_name |-> NoneV,
     func_type |-> NoneE]

\* the default min_prec of parse_expression
DefaultMinPrec == -1000

(***************************************************************************)
(* Parser.consume                                                          *)
(***************************************************************************)
\* (mutant) a consume that also skips the token it did not expect
consume_skipping(s, t, msg) ==
    IF s.token.type = t
    THEN Return(NextToken(s), Bool(TRUE))
    ELSE Return(NextToken(Report(s, Diagnostic(msg, NoneV))), Bool(FALSE))

consume(s, t, msg) ==
    IF s.token.type = t
    THEN Return(NextToken(s), Bool(TRUE))
    ELSE Return(Report(s, Diagnostic(msg, NoneV)), Bool(FALSE))

Consume ==
    /\ At("consume")
    /\ Becomes(consume(St, Top(St).t, Top(St).s))

(***************************************************************************)
(* Parser.parse_atom, Parser.parse_parenthesis                             *)
(***************************************************************************)
\* (mutant) the operand of a prefix operator parsed as a whole expression
UnaryOperand_expression == Frame_parse_expression(DefaultMinPrec)

\* the operand of a prefix operator is parsed by parse_atom
UnaryOperand == Frame_parse_atom

Unary(s, f, kind) ==
    Call(NextToken(s), [f EXCEPT !.operator = kind], "unary", UnaryOperand)

parse_atom(s) ==
    LET f == Top(s)
        tok == s.token
    IN  CASE f.pc = "entry" ->
               IF tok.type = "Identifier" THEN Return(NextToken(s), Identifier(tok.value))
               ELSE IF tok.type = "IntLiteral"
                    THEN Return(NextToken(s), Constant("Int", tok.value))
               ELSE IF tok.type = "StringLiteral"
                    THEN Return(NextToken(s), Constant("String", tok.value))
               ELSE IF tok.type = "Minus" THEN Unary(s, f, "Negate")
               ELSE IF tok.type = "Plus" THEN Unary(s, f, "Posate")
               ELSE IF tok.type = "Bang" THEN Unary(s, f, "Flip")
               ELSE IF tok.type = "Tilde" THEN Unary(s, f, "Invert")
               ELSE IF tok.type = "LParen"
                    THEN TailCall(NextToken(s), Frame_parse_parenthesis)
               ELSE Return(s, NoneE)
          [] f.pc = "unary" -> Return(s, UnaryOperator(f.operator, s.ret))

ParseAtom ==
    /\ At("parse_atom")
    /\ Becomes(parse_atom(St))

parse_parenthesis(s) ==
    LET f == Top(s)
    IN  CASE f.pc = "entry" ->
               Call(s, f, "close", Frame_parse_expression(DefaultMinPrec))
          [] f.pc = "close" ->
               Call(s, [f EXCEPT !.e = s.ret], "return",
                    Frame_consume("RParen", "Expected ')' after expression in parenthesis"))
          [] f.pc = "return" -> Return(s, f.e)

ParseParenthesis ==
    /\ At("parse_parenthesis")
    /\ Becomes(parse_parenthesis(St))

(***************************************************************************)
(* Parser.parse_expression                                                 *)
(***************************************************************************)
\* (mutant) the loop without its break on a lower precedence
Climbs_any(type, min_prec) == type \in DOMAIN operator_map

\* the while condition and its break: the current token is a binary
\* operator whose precedence is not below min_prec
Climbs(type, min_prec) ==
    /\ type \in DOMAIN operator_map
    /\ ~(operator_map[type].precedence < min_prec)

\* (mutant) the right operand parsed at the operator's own precedence, as
\* for a right-associative operator
next_prec_same(info) == info.precedence

next_prec(info) == info.precedence + (IF info.left_associativity THEN 1 ELSE 0)

\* the loop of parse_expression with lhs in hand
ExpressionLoop(s, f, lhs) ==
    IF Climbs(s.token.type, f.min_prec)
    THEN LET info == operator_map[s.token.type]
         IN  Call(NextToken(s), [f EXCEPT !.lhs = lhs, !.info = info], "rhs",
                  Frame_parse_expression(next_prec(info)))
    ELSE Return(s, lhs)

parse_expression(s) ==
    LET f == Top(s)
    IN  CASE f.pc = "entry" -> Call(s, f, "lhs", Frame_parse_atom)
          [] f.pc = "lhs" -> ExpressionLoop(s, f, s.ret)
          [] f.pc = "rhs" -> ExpressionLoop(s, f, BinaryOperator(f.lhs, f.info.kind, s.ret))

ParseExpression ==
    /\ At("parse_expression")
    /\ Becomes(parse_expression(St))

(***************************************************************************)
(* Parser.parse_block, Parser.parse_if                                     *)
(***************************************************************************)
parse_block(s) ==
    LET f == Top(s)
    IN  CASE f.pc = "loop" ->
               IF s.token.type = "RBrace"
               THEN Return(NextToken(s), StatementBlock(f.statements))
               ELSE Call(s, [f EXCEPT !.mark = Mark(s)], "append", Frame_parse_statement)
          [] f.pc = "append" ->
               Goto(s, [f EXCEPT !.statements = Append(@, s.ret)], "loop")

ParseBlock ==
    /\ At("parse_block")
    /\ Becomes(parse_block(St))

parse_if(s) ==
    LET f == Top(s)
    IN  CASE f.pc = "entry" ->
               Call(s, f, "condition", Frame_consume("LParen", "Expected '(' after if statement"))
          [] f.pc = "condition" ->
               Call(s, f, "rparen", Frame_parse_expression(DefaultMinPrec))
          [] f.pc = "rparen" ->
               Call(s, [f EXCEPT !.condition = s.ret], "if_clause",
                    Frame_consume("RParen", "Expected ')' after if's condition"))
          [] f.pc = "if_clause" -> Call(s, f, "else", Frame_parse_statement)
          [] f.pc = "else" ->
               IF s.token.type = "ElseKW"
               THEN Call(NextToken(s), [f EXCEPT !.if_clause = s.ret], "return",
                         Frame_parse_statement)
               ELSE Return(s, IfStatement(f.condition, s.ret, NoneE))
          [] f.pc = "return" -> Return(s, IfStatement(f.condition, f.if_clause, s.ret))

ParseIf ==
    /\ At("parse_if")
    /\ Becomes(parse_if(St))

(***************************************************************************)
(* Parser.parse_type_expression                                            *)
(***************************************************************************)
\* (mutant) the void placeholder substituted without a diagnostic
Unresolved_silent(s, name) == Return(s, void_type)

\* no entry for the name: one diagnostic naming it, and the void placeholder
Unresolved(s, name) ==
    Return(Report(s, Diagnostic("No type found with name ", name)), void_type)

\* name is what the frame read at entry; the consume has returned
ResolveType(s, name) ==
    IF ~Hashable(name) THEN Raise(s, "TypeError")
    ELSE LET entry == search_symbol(name)
         IN  IF entry = NoneE THEN Unresolved(s, name)
             ELSE IF entry.kind # "Type"
                  THEN Return(Report(s, Diagnostic("Non-type symbol used as a type expression",
                                                   NoneV)),
                              void_type)
             ELSE IF s.token.type = "Ampersand"
                  THEN Return(NextToken(s), add_flags(entry.type, Reference))
             ELSE Return(s, entry.type)

parse_type_expression(s) ==
    LET f == Top(s)
    IN  CASE f.pc = "entry" ->
               Call(s, [f EXCEPT !.name = s.token.value], "lookup",
                    Frame_consume("Identifier", "Type must be an identifier"))
          [] f.pc = "lookup" -> ResolveType(s, f.name)

ParseTypeExpression ==
    /\ At("parse_type_expression")
    /\ Becomes(parse_type_expression(St))

(***************************************************************************)
(* Parser.parse_variable_declaration                                       *)
(***************************************************************************)
parse_variable_declaration(s) ==
    LET f == Top(s)
        semicolon == Frame_consume("Semicolon", "Expected ';' after variable declaration")
    IN  CASE f.pc = "entry" ->
               Call(s, [f EXCEPT !.name = s.token.value], "colon",
                    Frame_consume("Identifier", "Variable declaration must have a name!"))
          [] f.pc = "colon" ->
               Call(s, f, "type",
                    Frame_consume("Colon", "Expected ':' after variable declaration name"))
          [] f.pc = "type" -> Call(s, f, "init", Frame_parse_type_expression)
          [] f.pc = "init" ->
               IF s.token.type = "Equal"
               THEN Call(NextToken(s), [f EXCEPT !.tp = s.ret], "semicolon",
                         Frame_parse_expression(DefaultMinPrec))
               ELSE Call(s, [f EXCEPT !.tp = s.ret], "return", semicolon)
          [] f.pc = "semicolon" -> Call(s, [f EXCEPT !.init = s.ret], "return", semicolon)
          [] f.pc = "return" -> Return(s, VariableDeclaration(f.name, f.tp, f.init))

ParseVariableDeclaration ==
    /\ At("parse_variable_declaration")
    /\ Becomes(parse_variable_declaration(St))

(***************************************************************************)
(* Parser.parse_function_definition                                        *)
(***************************************************************************)
\* (mutant) a parameter whose type did not resolve keeps its name only
AppendParameter_resolved(f, arg_type) ==
    IF arg_type = void_type
    THEN [f EXCEPT !.arg_names = Append(@, f.arg_name)]
    ELSE [f EXCEPT !.arg_names = Append(@, f.arg_name), !.arg_types = Append(@, arg_type)]

\* arg_names.append(arg_name); arg_types.append(arg_type)
AppendParameter(f, arg_type) ==
    [f EXCEPT !.arg_names = Append(@, f.arg_name), !.arg_types = Append(@, arg_type)]

\* FunctionDefinition(name, func_type, arg_names, code) and its asserts
Construct(s, f, code) ==
    IF FunctionDefinition_asserts(f.func_type, f.arg_names, code)
    THEN Return(s, FunctionDefinition(f.name, f.func_type, f.arg_names, code))
    ELSE Raise(s, "AssertionError")

\* after the return type: a semicolon makes a forward declaration,
\* anything else must open the body
Body(s, f) ==
    IF s.token.type = "Semicolon"
    THEN Construct(NextToken(s), f, NoneE)
    ELSE Call(s, f, "block",
              Frame_consume("LBrace", "Expected '{' after function definition"))

parse_function_definition(s) ==
    LET f == Top(s)
        rparen == Frame_consume("RParen", "Expected ')' after function arguments")
    IN  CASE f.pc = "entry" ->
               Call(s, [f EXCEPT !.name = s.token.value], "lparen",
                    Frame_consume("Identifier", "Function definition must have a name!"))
          [] f.pc = "lparen" ->
               Call(s, f, "while", Frame_consume("LParen", "Expected '(' after function name"))
          [] f.pc = "while" ->
               IF s.token.type = "Identifier"
               THEN Call(NextToken(s), [f EXCEPT !.arg_name = s.token.value], "arg_type",
                         Frame_consume("Colon", "Expected ':' after function parameter name"))
               ELSE Call(s, f, "arrow", rparen)
          [] f.pc = "arg_type" -> Call(s, f, "append", Frame_parse_type_expression)
          [] f.pc = "append" ->
               IF s.token.type = "Comma"
               THEN Goto(NextToken(s), AppendParameter(f, s.ret), "while")
               ELSE Call(s, AppendParameter(f, s.ret), "arrow", rparen)
          [] f.pc = "arrow" ->
               Call(s, f, "ret_tp",
                    Frame_consume("Arrow", "Expected '->' after function arguments"))
          [] f.pc = "ret_tp" -> Call(s, f, "body", Frame_parse_type_expression)
          [] f.pc = "body" ->
               Body(s, [f EXCEPT !.func_type = FunctionType(s.ret, f.arg_types)])
          [] f.pc = "block" -> Call(s, f, "return", Frame_parse_block)
          [] f.pc = "return" -> Construct(s, f, s.ret)

ParseFunctionDefinition ==
    /\ At("parse_function_definition")
    /\ Becomes(parse_function_definition(St))

(***************************************************************************)
(* Parser.parse_statement, Parser.parse_module                             *)
(***************************************************************************)
parse_statement(s) ==
    LET f == Top(s)
        type == s.token.type
    IN  CASE f.pc = "entry" ->
               IF type = "ReturnKW"
               THEN Call(NextToken(s), f, "return_stmt", Frame_parse_expression(DefaultMinPrec))
               ELSE IF type = "FnKW"
                    THEN TailCall(NextToken(s), Frame_parse_function_definition)
               ELSE IF type = "VarKW"
                    THEN TailCall(NextToken(s), Frame_parse_variable_declaration)
               ELSE IF type = "IfKW" THEN TailCall(NextToken(s), Frame_parse_if)
               ELSE IF type = "LBrace" THEN TailCall(NextToken(s), Frame_parse_block)
               ELSE Call(s, f, "expr_stmt", Frame_parse_expression(DefaultMinPrec))
          [] f.pc = "return_stmt" ->
               Call(s, [f EXCEPT !.stmt = ReturnStatement(s.ret)], "return",
                    Frame_consume("Semicolon", "Expected ';' after return statement"))
          [] f.pc = "expr_stmt" ->
               Call(s, [f EXCEPT !.stmt = ExpressionStatement(s.ret)], "return",
                    Frame_consume("Semicolon", "Expected ';' after expression statement"))
          [] f.pc = "return" -> Return(s, f.stmt)

ParseStatement ==
    /\ At("parse_statement")
    /\ Becomes(parse_statement(St))

parse_module(s) ==
    LET f == Top(s)
    IN  CASE f.pc = "loop" ->
               IF s.token.type # "EndOfFile"
               THEN Call(s, [f EXCEPT !.mark = Mark(s)], "append", Frame_parse_statement)
               ELSE Return(s, ModuleDefinition(f.statements))
          [] f.pc = "append" ->
               Goto(s, [f EXCEPT !.statements = Append(@, s.ret)], "loop")

\* the caller's p.parse_module() on a constructed parser, and its steps
ParseModule ==
    \/ /\ status = "ready"
       /\ Becomes([St EXCEPT !.status = "running", !.stack = <<Frame_parse_module>>])
    \/ /\ At("parse_module")
       /\ Becomes(parse_module(St))

(***************************************************************************)
(* Tokenizer on its own: next() called again and again on one source text  *)
(***************************************************************************)
TokenizerNext ==
    /\ status = "tokenizing"
    /\ LET r == Tokenizer_call(source, idx, line)
       IN  /\ idx' = r.idx
           /\ line' = r.line
           /\ token' = IF r.exc = "none" THEN r.token ELSE token
           /\ status' = IF r.exc = "none" THEN status ELSE r.exc
    /\ UNCHANGED <<source, errors, stack, ret>>

(***************************************************************************)
(* Source texts.  A parser input is a sequence of lexemes written with one *)
(* space between neighbours.                                               *)
(***************************************************************************)
RECURSIVE Join(_)
Join(lexemes) ==
    IF lexemes = <<>> THEN <<>>
    ELSE IF Len(lexemes) = 1 THEN lexemes[1]
    ELSE lexemes[1] \o <<" ">> \o Join(Tail(lexemes))

\* the lexemes of a text written by Join
RECURSIVE Split(_, _)
Split(src, word) ==
    IF src = <<>> THEN (IF word = <<>> THEN <<>> ELSE <<word>>)
    ELSE IF Head(src) = " "
         THEN (IF word = <<>> THEN <<>> ELSE <<word>>) \o Split(Tail(src), <<>>)
         ELSE Split(Tail(src), Append(word, Head(src)))

Lexemes(src) == Split(src, <<>>)

RECURSIVE Flatten(_)
Flatten(parts) == IF parts = <<>> THEN <<>> ELSE Head(parts) \o Flatten(Tail(parts))

\* every way to pick one alternative per slot, flattened to one lexeme sequence
RECURSIVE Choices(_)
Choices(slots) ==
    IF slots = <<>> THEN {<<>>}
    ELSE {first \o rest : first \in Head(slots), rest \in Choices(Tail(slots))}

kw_var == <<"v", "a", "r">>
kw_fn == <<"f", "n">>
kw_if == <<"i", "f">>
kw_else == <<"e", "l", "s", "e">>
kw_return == <<"r", "e", "t", "u", "r", "n">>

\* the source text of each operator of operator_map
OpText ==
    [t \in DOMAIN operator_map |->
       CASE t = "Star" -> <<"*">>
         [] t = "Slash" -> <<"/">>
         [] t = "Percent" -> <<"%">>
         [] t = "Plus" -> <<"+">>
         [] t = "Minus" -> <<"-">>
         [] t = "LShift" -> <<"<", "<">>
         [] t = "RShift" -> <<">", ">">>
         [] t = "Greater" -> <<">">>
         [] t = "GreaterEqual" -> <<">", "=">>
         [] t = "Lesser" -> <<"<">>
         [] t = "LesserEqual" -> <<"<", "=">>
         [] t = "Equal" -> <<"=">>
         [] t = "BangEqual" -> <<"!", "=">>
         [] t = "Ampersand" -> <<"&">>
         [] t = "Caret" -> <<"^">>
         [] t = "Pipe" -> <<"|">>]

BinOps == DOMAIN operator_map

UnaryText == {<<"-">>, <<"+">>, <<"!">>, <<"~">>}

\* atoms: an identifier, an integer literal, a string literal
Atoms == {<<"a">>, <<"1">>}
AtomPool == << <<"a">>, <<"1">>, <<"'", "s", "'">>, <<"b">> >>

Vocabulary ==
    {<<"a">>, <<"1">>, <<";">>, <<"(">>, <<")">>, <<"{">>, <<"}">>, <<"+">>, <<"*">>,
     <<"-">>, <<"=">>, <<"&">>, <<":">>, <<"@">>, <<"\n">>, <<"1", "_">>,
     kw_var, kw_fn, kw_if, kw_return}

FreeInputs == UNION {[1..k -> Vocabulary] : k \in 0..MaxLexemes}

\* x op y ;  for every operator text, and for == as well
BinaryInputs ==
    {<<x, o, y, <<";">>>> : x \in Atoms, y \in Atoms,
                           o \in {OpText[t] : t \in BinOps} \cup {<<"=", "=">>}}

\* x op1 y op2 z ;
PrecedenceInputs ==
    {<<x, OpText[o1], y, OpText[o2], z, <<";">>>> :
        x \in Atoms, y \in Atoms, z \in Atoms, o1 \in BinOps, o2 \in BinOps}

\* a1 op1 a2 ... an ;  with every operator from one precedence tier
Tier(p) == {t \in BinOps : operator_map[t].precedence = p}

RECURSIVE Chain(_, _)
Chain(ops, i) ==
    IF i > Len(ops) THEN <<AtomPool[((i - 1) % Len(AtomPool)) + 1], <<";">>>>
    ELSE <<AtomPool[((i - 1) % Len(AtomPool)) + 1], OpText[ops[i]]>> \o Chain(ops, i + 1)

ChainInputs ==
    {Chain(ops, 1) : ops \in UNION {[1..k -> Tier(p)] : k \in 1..(MaxChain - 1), p \in -7..0}}

\* u a op b ;
UnaryInputs ==
    {<<u, a, OpText[o], b, <<";">>>> : u \in UnaryText, a \in Atoms, b \in Atoms, o \in BinOps}

Opt(lexeme) == {<<>>, <<lexeme>>}

TypeTexts ==
    {<<>>, <<i32>>, <<<<"T">>>>, <<i32, <<"&">>>>, <<<<"T">>, <<"&">>>>, <<<<"@">>>>, <<<<"1">>>>}

VarInputs ==
    Choices(<< {<<kw_var>>}, Opt(<<"x">>), Opt(<<":">>), TypeTexts,
               {<<>>, <<<<"=">>, <<"a">>>>, <<<<"=">>, <<"a">>, <<"+">>, <<"1">>>>, <<<<"=">>>>},
               Opt(<<";">>) >>)

FnInputs ==
    Choices(<< {<<kw_fn>>}, Opt(<<"f">>), Opt(<<"(">>),
               {<<>>,
                <<<<"a">>, <<":">>, i32>>,
                <<<<"a">>, <<":">>, <<"T">>>>,
                <<<<"a">>, i32>>,
                <<<<"a">>, <<":">>, i32, <<",">>, <<"b">>, <<":">>, i32, <<"&">>>>,
                <<<<"a">>, <<":">>, i32, <<",">>>>},
               Opt(<<")">>), Opt(<<"-", ">">>),
               {<<>>, <<i32>>, <<<<"T">>>>, <<i32, <<"&">>>>},
               {<<>>, <<<<";">>>>, <<<<"{">>, <<"}">>>>, <<<<"{">>, <<"a">>, <<";">>, <<"}">>>>,
                <<<<"{">>>>} >>)

SimpleStatements ==
    {<<<<"a">>, <<";">>>>, <<<<"{">>, <<"}">>>>, <<<<";">>>>, <<>>,
     <<kw_return, <<"a">>, <<";">>>>}

IfInputs ==
    Choices(<< {<<kw_if>>}, Opt(<<"(">>), {<<>>, <<<<"a">>>>, <<<<"a">>, <<"<">>, <<"1">>>>},
               Opt(<<")">>), SimpleStatements,
               {<<>>, <<kw_else>>, <<kw_else, <<"a">>, <<";">>>>} >>)

BlockInputs ==
    Choices(<< {<<<<"{">>>>}, SimpleStatements, SimpleStatements, Opt(<<"}">>) >>)
    \cup Choices(<< {<<kw_return>>}, {<<>>, <<<<"a">>>>, <<<<"(">>, <<"a">>, <<")">>>>,
                                      <<<<"(">>, <<"a">>>>}, Opt(<<";">>) >>)

\* the text main.py parses
MainInput ==
    << kw_fn, <<"f", "u", "n", "c">>, <<"(">>, <<"a">>, <<":">>, i32, <<",">>, <<"b">>, <<":">>,
       i32, <<")">>, <<"-", ">">>, i32, <<"{">>,
       kw_var, <<"c">>, <<":">>, i32, <<"=">>, <<"a">>, <<"+">>, <<"b">>, <<";">>,
       kw_return, <<"c">>, <<"*">>, <<"c">>, <<"+">>, <<"a">>, <<"*">>, <<"b">>, <<";">>,
       <<"}">> >>

\* x op ;   u ;   ( ) ;   x op u ;  : an operand is missing
MissingOperandInputs ==
    {<<x, OpText[o], <<";">>>> : x \in Atoms, o \in BinOps}
    \cup {<<u, <<";">>>> : u \in UnaryText}
    \cup {<<x, OpText[o], u, <<";">>>> : x \in Atoms, o \in BinOps, u \in UnaryText}
    \cup {<<<<"(">>, <<")">>, <<";">>>>}

ParserInputs ==
    FreeInputs \cup BinaryInputs \cup PrecedenceInputs \cup ChainInputs \cup UnaryInputs
    \cup VarInputs \cup FnInputs \cup IfInputs \cup BlockInputs \cup MissingOperandInputs
    \cup {MainInput}

TokenizerAlphabet ==
    {"1", "_", "a", " ", "\n", "'", "\"", "\\", "=", "<", "@", "\\u00b2"}

TokenizerInputs == UNION {[1..k -> TokenizerAlphabet] : k \in 0..MaxSrcLen}

(***************************************************************************)
(* Specifications                                                          *)
(***************************************************************************)
\* Parser(text): the constructor pulls the first token; a text whose first
\* token raises constructs no parser
Init ==
    /\ source \in {Join(input) : input \in ParserInputs}
    /\ LET r == Tokenizer_call(source, 0, 0)
       IN  /\ r.exc = "none"
           /\ idx = r.idx
           /\ line = r.line
           /\ token = r.token
    /\ errors = <<>>
    /\ stack = <<>>
    /\ ret = NoneE
    /\ status = "ready"

Next ==
    \/ ParseModule
    \/ ParseStatement
    \/ ParseBlock
    \/ ParseIf
    \/ ParseVariableDeclaration
    \/ ParseFunctionDefinition
    \/ ParseTypeExpression
    \/ ParseExpression
    \/ ParseAtom
    \/ ParseParenthesis
    \/ Consume

Spec == Init /\ [][Next]_vars

\* Tokenizer(text)
InitTokenizer ==
    /\ source \in TokenizerInputs
    /\ idx = 0
    /\ line = 0
    /\ token = Token("None", NoneV, 0)
    /\ errors = <<>>
    /\ stack = <<>>
    /\ ret = NoneE
    /\ status = "tokenizing"

NextTokenizer == TokenizerNext

SpecTokenizer == InitTokenizer /\ [][NextTokenizer]_vars

\* IntegerType(w, signed): a call of the constructor with its two arguments
Frame_IntegerType(w, signed) == [fn |-> "IntegerType", w |-> w, signed |-> signed]

InitTypes ==
    /\ source = <<>>
    /\ idx = 0
    /\ line = 0
    /\ token = Token("None", NoneV, 0)
    /\ errors = <<>>
    /\ stack \in {<<Frame_IntegerType(w, signed)>> : w \in (-MaxWidth)..MaxWidth, signed \in BOOLEAN}
    /\ ret = NoneE
    /\ status = "constructing"

\* IntegerType.__init__: the descriptor is returned unless an assert fails
ConstructIntegerType ==
    /\ status = "constructing"
    /\ LET f == stack[1]
       IN  IF IntegerType_asserts(f.w, f.signed)
           THEN ret' = IntegerType(f.w, f.signed) /\ status' = "done"
           ELSE ret' = ret /\ status' = "AssertionError"
    /\ UNCHANGED <<source, idx, line, token, errors, stack>>

NextTypes == ConstructIntegerType

SpecTypes == InitTypes /\ [][NextTypes]_vars

(***************************************************************************)
(* What the claims need to read a source text back                         *)
(***************************************************************************)
IsAtomText(w) ==
    /\ w # <<>>
    /\ \/ w[1] \in ascii_letters /\ w \notin DOMAIN keyword_map
       \/ w[1] \in ascii_digits /\ int(w).ok
       \/ Len(w) >= 2 /\ w[1] = "'" /\ w[Len(w)] = "'"

\* the node an atom's text stands for
AtomOf(w) ==
    IF w[1] \in ascii_letters THEN Identifier(StrV(w))
    ELSE IF w[1] \in ascii_digits THEN Constant("Int", IntV(DecimalValue(w, 0)))
    ELSE Constant("String", StrV(SubSeq(w, 2, Len(w) - 1)))

IsOpText(w) == \E t \in BinOps : OpText[t] = w
OpOf(w) == operator_map[CHOOSE t \in BinOps : OpText[t] = w]

UnaryKindOf(w) ==
    CASE w = <<"-">> -> "Negate" [] w = <<"+">> -> "Posate"
      [] w = <<"!">> -> "Flip" [] w = <<"~">> -> "Invert"

\* the module holding the one expression statement e
OneExpression(e) == ModuleDefinition(<<ExpressionStatement(e)>>)

Escaped == status \in {"ValueError", "TypeError", "AssertionError"}

(***************************************************************************)
(* C1                                                                      *)
(***************************************************************************)
\* C1: parse_module terminates on every source text.  The parser's control
\* flow is decided by its frames, the current token and the tokenizer's
\* cursor alone, so it terminates only if every lap of a statement loop
\* (parse_module's while, parse_block's while) changes the token or the
\* cursor: a lap that comes back with both unchanged repeats forever,
\* appending diagnostics and statements without end.
C1_EveryLapConsumesInput ==
    (status = "running" /\ stack # <<>>
        /\ Top(St).fn \in {"parse_module", "parse_block"} /\ Top(St).pc = "append")
    => Mark(St) # Top(St).mark

(***************************************************************************)
(* C2, C3, C7: the shape of parsed expressions                             *)
(***************************************************************************)
\* the source text is  x op1 y op2 z ;  with atoms x, y, z and two operators
\* of operator_map
IsTwoOperatorText(w) ==
    /\ Len(w) = 6
    /\ IsAtomText(w[1]) /\ IsAtomText(w[3]) /\ IsAtomText(w[5])
    /\ IsOpText(w[2]) /\ IsOpText(w[4])
    /\ w[6] = <<";">>

\* C2: when the second operator is in a strictly tighter tier than the first,
\* the text parses as (x op1 (y op2 z)); when the first is in a strictly
\* tighter tier than the second, as ((x op1 y) op2 z).  No diagnostic is
\* recorded and nothing is raised on the way.
C2_Precedence ==
    LET w == Lexemes(source)
    IN  (IsTwoOperatorText(w)
           /\ OpOf(w[2]).precedence # OpOf(w[4]).precedence)
        => /\ errors = <<>>
           /\ ~Escaped
           /\ status = "done" =>
                LET x == AtomOf(w[1])
                    y == AtomOf(w[3])
                    z == AtomOf(w[5])
                    op1 == OpOf(w[2])
                    op2 == OpOf(w[4])
                IN  IF op2.precedence > op1.precedence
                    THEN ret = OneExpression(
                                   BinaryOperator(x, op1.kind, BinaryOperator(y, op2.kind, z)))
                    ELSE ret = OneExpression(
                                   BinaryOperator(BinaryOperator(x, op1.kind, y), op2.kind, z))

\* a finished parse of  x op1 y op2 z ;  for each of the two orders
C2_Witness ==
    LET w == Lexemes(source)
    IN  /\ status = "done"
        /\ IsTwoOperatorText(w)
        /\ OpOf(w[2]).precedence > OpOf(w[4]).precedence
        /\ ret.statements[1].expr.lhs.node = "BinaryOperator"

\* the source text is  a1 op1 a2 ... an ;  with n >= 2 atoms and every
\* operator from one precedence tier
IsChainText(w) ==
    /\ Len(w) >= 4
    /\ Len(w) % 2 = 0
    /\ w[Len(w)] = <<";">>
    /\ \A i \in 1..(Len(w) - 1) : IF i % 2 = 1 THEN IsAtomText(w[i]) ELSE IsOpText(w[i])
    /\ \A i \in 1..(Len(w) - 1) :
          i % 2 = 0 => OpOf(w[i]).precedence = OpOf(w[2]).precedence

\* (((a1 op1 a2) op2 a3) ... ak): the left-nested tree of the first k atoms
RECURSIVE LeftNested(_, _)
LeftNested(w, k) ==
    IF k = 1 THEN AtomOf(w[1])
    ELSE BinaryOperator(LeftNested(w, k - 1), OpOf(w[2 * k - 2]).kind, AtomOf(w[2 * k - 1]))

\* C3: a chain of atoms joined by operators of one tier parses as the
\* left-nested tree, so the right operand of every BinaryOperator is an atom.
C3_LeftAssociative ==
    LET w == Lexemes(source)
    IN  IsChainText(w)
        => /\ errors = <<>>
           /\ ~Escaped
           /\ status = "done" => ret = OneExpression(LeftNested(w, Len(w) \div 2))

\* a finished parse of the longest chain the model holds
C3_Witness ==
    LET w == Lexemes(source)
    IN  /\ status = "done"
        /\ IsChainText(w)
        /\ Len(w) = 2 * MaxChain
        /\ ret.statements[1].expr.lhs.lhs.node = "BinaryOperator"

\* the source text is  u a op b ;
IsUnaryText(w) ==
    /\ Len(w) = 5
    /\ w[1] \in UnaryText
    /\ IsAtomText(w[2]) /\ IsOpText(w[3]) /\ IsAtomText(w[4])
    /\ w[5] = <<";">>

\* C7: for a prefix operator u, a binary operator op and atoms a, b the text
\* u a op b  parses as ((u a) op b): the prefix operator applies to a alone.
C7_UnaryBindsTighter ==
    LET w == Lexemes(source)
    IN  IsUnaryText(w)
        => /\ errors = <<>>
           /\ ~Escaped
           /\ status = "done" =>
                ret = OneExpression(
                          BinaryOperator(UnaryOperator(UnaryKindOf(w[1]), AtomOf(w[2])),
                                         OpOf(w[3]).kind, AtomOf(w[4])))

\* a finished parse of  u a op b ;  with the loosest operator of the table
C7_Witness ==
    LET w == Lexemes(source)
    IN  /\ status = "done"
        /\ IsUnaryText(w)
        /\ OpOf(w[3]).kind = "Bitor"
        /\ ret.statements[1].expr.lhs.node = "UnaryOperator"

(***************************************************************************)
(* C4                                                                      *)
(***************************************************************************)
\* the source text is  a == b ;  or  a != b ;
IsEqualityText(w) ==
    /\ Len(w) = 4
    /\ IsAtomText(w[1]) /\ IsAtomText(w[3])
    /\ w[2] \in {<<"=", "=">>, <<"!", "=">>}
    /\ w[4] = <<";">>

\* C4: a == b ;  parses to one ExpressionStatement holding
\* BinaryOperator(a, CmpEqual, b) and  a != b ;  to BinaryOperator(a,
\* CmpInEqual, b), and the diagnostics list stays empty.
C4_EqualityOperators ==
    LET w == Lexemes(source)
    IN  IsEqualityText(w)
        => /\ errors = <<>>
           /\ status = "done" =>
                ret = OneExpression(
                          BinaryOperator(AtomOf(w[1]),
                                         IF w[2] = <<"=", "=">> THEN "CmpEqual" ELSE "CmpInEqual",
                                         AtomOf(w[3])))

(***************************************************************************)
(* C5, C6: the tokenizer                                                   *)
(***************************************************************************)
\* C5: a call whose cursor stands on a newline adds one to the line counter,
\* skips the newline and returns the token of the text after it; the token
\* returned never carries the newline as its payload.
C5_NewlineSkipped ==
    [][(status = "tokenizing" /\ idx < Len(source) /\ source[idx + 1] = "\n")
        => LET r == Tokenizer_call(source, idx + 1, line + 1)
           IN  /\ ~(token'.type = "Error" /\ token'.value = UnknownCharacterError("\n"))
               /\ r.exc = "none" => token' = r.token /\ idx' = r.idx /\ line' = r.line
      ]_vars

\* C6: a call whose cursor stands on a digit returns, without raising, one
\* IntLiteral for the whole run of digits and underscores that starts there;
\* its value is the decimal number of the run's digits.
C6_IntegerLiteral ==
    [][(status = "tokenizing" /\ idx < Len(source) /\ source[idx + 1] \in ascii_digits)
        => LET end == ScanWhileIn(source, idx, number_chars)
               run == SubSeq(source, idx + 1, end)
           IN  /\ status' = "tokenizing"
               /\ token' = Token("IntLiteral", IntV(DecimalValue(run, 0)), line)
               /\ idx' = end
               /\ line' = line
      ]_vars

(***************************************************************************)
(* C8                                                                      *)
(***************************************************************************)
Unbound(name) == \A depth \in 1..Len(symbol_table) : name \notin DOMAIN symbol_table[depth]

IsIdentifierText(w) == w # <<>> /\ w[1] \in ascii_letters /\ w \notin DOMAIN keyword_map

\* the source text is  var NAME : T ;  with T bound to nothing
IsUnknownTypeDeclaration(w) ==
    /\ Len(w) = 5
    /\ w[1] = kw_var
    /\ IsIdentifierText(w[2])
    /\ w[3] = <<":">>
    /\ IsIdentifierText(w[4]) /\ Unbound(w[4])
    /\ w[5] = <<";">>

\* C8: when parse_type_expression looks up a name that no scope binds, it
\* appends one diagnostic carrying that name, hands the void placeholder to
\* its caller, which goes on with the declaration, and consumes nothing; so
\* var NAME : T ;  with T unbound yields the declaration of NAME with the void
\* type and a diagnostics list reporting T.
C8_UnknownType ==
    [][/\ (At("parse_type_expression") /\ Top(St).pc = "lookup"
             /\ Top(St).name.k = "str" /\ Unbound(Top(St).name.s))
          => /\ errors' = Append(errors, Diagnostic("No type found with name ", Top(St).name))
             /\ ret' = void_type
             /\ stack' = SubSeq(stack, 1, Len(stack) - 1)
             /\ status' = "running"
             /\ UNCHANGED <<token, idx, line>>
       /\ (status' = "done" /\ IsUnknownTypeDeclaration(Lexemes(source)))
          => LET w == Lexemes(source)
             IN  /\ ret' = ModuleDefinition(
                               <<VariableDeclaration(StrV(w[2]), void_type, NoneE)>>)
                 /\ errors' = <<Diagnostic("No type found with name ", StrV(w[4]))>>
      ]_vars

\* var NAME : T ;  parsed to the end
C8_Witness ==
    /\ status = "done"
    /\ IsUnknownTypeDeclaration(Lexemes(source))
    /\ ret.statements[1].qualified_type = void_type
    /\ Len(errors) = 1

(***************************************************************************)
(* C9                                                                      *)
(***************************************************************************)
\* C9: a consume that misses appends its one diagnostic to the end of the
\* list and leaves the current token, the cursor and the line counter as they
\* were; a consume that hits leaves the list as it was and calls the
\* tokenizer exactly once, whose token becomes the current one (an exception
\* of that one call leaves consume with the token as it was).
C9_ConsumeFrame ==
    [][At("consume")
        => LET f == Top(St)
               r == Tokenizer_call(source, idx, line)
           IN  IF token.type = f.t
               THEN /\ errors' = errors
                    /\ idx' = r.idx /\ line' = r.line
                    /\ IF r.exc = "none"
                       THEN token' = r.token /\ ret' = Bool(TRUE) /\ status' = "running"
                       ELSE token' = token /\ status' = r.exc
               ELSE /\ errors' = Append(errors, Diagnostic(f.s, NoneV))
                    /\ ret' = Bool(FALSE)
                    /\ UNCHANGED <<token, idx, line, status>>
      ]_vars

\* a consume has missed after an earlier one hit: the list holds a diagnostic
\* and the parser is past the first token
C9_Witness ==
    /\ status = "running"
    /\ ret = Bool(FALSE)
    /\ Len(errors) = 1
    /\ idx > 1

(***************************************************************************)
(* C10                                                                     *)
(***************************************************************************)
\* C10: parse_function_definition never trips the constructor's asserts; the
\* FunctionDefinition it returns has as many parameter names as parameter
\* types; its body is absent exactly when the token after the return type
\* was a semicolon, and is a StatementBlock otherwise.
C10_FunctionDefinition ==
    [][At("parse_function_definition")
        => /\ status' # "AssertionError"
           /\ (Len(stack') < Len(stack) /\ ~Escaped')
              => /\ ret'.node = "FunctionDefinition"
                 /\ Len(ret'.arg_names) = Len(ret'.function_type.arguments)
                 /\ ret'.arg_names = Top(St).arg_names
                 /\ (ret'.code = NoneE)
                      <=> (Top(St).pc = "body" /\ token.type = "Semicolon")
                 /\ ret'.code # NoneE => ret'.code.node = "StatementBlock"
           /\ (Top(St).pc = "body" /\ token.type # "Semicolon")
              => Len(stack') > Len(stack)
      ]_vars

\* a forward declaration returned from a malformed parameter list
C10_Witness ==
    /\ status \in {"running", "done"}
    /\ ret.node = "FunctionDefinition"
    /\ Len(ret.arg_names) = 2
    /\ ret.code = NoneE
    /\ errors # <<>>

(***************************************************************************)
(* C11: unrecognized characters                                            *)
(***************************************************************************)
\* the characters the rules of the language give a meaning to: space,
\* newline, punctuation, the digits 0-9, letters, underscore, the two
\* quotes and the operator symbols
RecognizedCharacters ==
    {" ", "\n", "_", "'", "\"", "-", ">", "<"}
        \cup DOMAIN single_char_literals \cup DOMAIN regular_operators
        \cup ascii_digits \cup ascii_letters \cup {"\\u00e9"}

\* C11: a call that, after the spaces it skips, stands on a character no
\* rule recognizes returns, without raising, the Error token whose payload
\* is that character, and leaves the cursor right behind that character
\* with the line counter unchanged.
C11_UnknownCharacter ==
    [][(status = "tokenizing")
        => LET at == ScanWhileIn(source, idx, {" "})
           IN  (at < Len(source) /\ source[at + 1] \notin RecognizedCharacters)
               => /\ status' = "tokenizing"
                  /\ token' = Token("Error", UnknownCharacterError(source[at + 1]), line)
                  /\ idx' = at + 1
                  /\ line' = line
      ]_vars

(***************************************************************************)
(* C12: end of input                                                       *)
(***************************************************************************)
\* C12: once a call has returned the end-of-input token, a further call
\* returns the same end-of-input token (same payload, same line), raises
\* nothing and changes neither the cursor nor the line counter; also when
\* the text ends inside a string literal that is never closed.
C12_EndOfInputAbsorbing ==
    [][(status = "tokenizing" /\ token.type = "EndOfFile")
        => /\ token' = token
           /\ idx' = idx
           /\ line' = line
           /\ status' = "tokenizing"
      ]_vars

\* the end-of-input token has been returned after an unclosed string literal
\* that holds a newline: the cursor stands one past the end of the text
C12_Witness ==
    /\ status = "tokenizing"
    /\ token.type = "EndOfFile"
    /\ token.value = IntV(idx)
    /\ idx = Len(source) + 1
    /\ line > 0
    /\ Tokenizer_call(source, idx, line) = Returned(token, idx, line)

(***************************************************************************)
(* C13: string literals                                                    *)
(***************************************************************************)
IsQuote(c) == c = "'" \/ c = "\""

\* the positions (1-based) after position open that hold the character q
ClosingPositions(src, open, q) == {k \in (open + 1)..Len(src) : src[k] = q}

FirstOf(positions) == CHOOSE k \in positions : \A j \in positions : k <= j

NewlinesBetween(src, open, close) ==
    Cardinality({k \in (open + 1)..(close - 1) : src[k] = "\n"})

\* C13: a call that, after the spaces it skips, stands on a quote which is
\* closed later in the text returns the StringLiteral whose text is exactly
\* the characters between the quote and its next occurrence and whose line
\* is the line counter at the opening quote; the cursor is left right behind
\* the closing quote and the line counter has grown by the number of
\* newlines between the two quotes.
C13_StringLiteral ==
    [][(status = "tokenizing")
        => LET open == ScanWhileIn(source, idx, {" "}) + 1
           IN  (/\ open <= Len(source)
                /\ IsQuote(source[open])
                /\ ClosingPositions(source, open, source[open]) # {})
               => LET close == FirstOf(ClosingPositions(source, open, source[open]))
                  IN  /\ status' = "tokenizing"
                      /\ token' = Token("StringLiteral",
                                        StrV(SubSeq(source, open + 1, close - 1)), line)
                      /\ idx' = close
                      /\ line' = line + NewlinesBetween(source, open, close)
      ]_vars

\* a closed literal that holds a newline and a quote of the other kind has
\* been returned: the token keeps the opening line, the counter is one ahead
C13_Witness ==
    /\ status = "tokenizing"
    /\ token.type = "StringLiteral"
    /\ idx <= Len(source)
    /\ IsQuote(source[idx])
    /\ \E k \in 1..Len(token.value.s) : token.value.s[k] = "\n"
    /\ \E k \in 1..Len(token.value.s) : IsQuote(token.value.s[k])
    /\ line = token.line + 1

(***************************************************************************)
(* C14: integer type descriptors                                           *)
(***************************************************************************)
\* w is one of 1, 2, 4, 8, ...
RECURSIVE IsPowerOfTwo(_)
IsPowerOfTwo(w) == w >= 1 /\ (w = 1 \/ (w % 2 = 0 /\ IsPowerOfTwo(w \div 2)))

\* C14: IntegerType(w, signed) returns a descriptor exactly when w is one of
\* 1, 2, 4, 8, ... and, for w = 1, signed is false; for every other pair,
\* width 0 included, the constructor fails with an assertion.
C14_IntegerWidth ==
    (stack # <<>> /\ Top(St).fn = "IntegerType" /\ status # "constructing")
        => LET f == Top(St)
               valid == IsPowerOfTwo(f.w) /\ (f.w = 1 => ~f.signed)
           IN  IF valid
               THEN status = "done" /\ ret = IntegerType(f.w, f.signed)
               ELSE status = "AssertionError"

(***************************************************************************)
(* C15: required expression slots                                          *)
(***************************************************************************)
\* e is an Expression node all of whose operands are Expression nodes
RECURSIVE IsExpression(_)
IsExpression(e) ==
    CASE e.node \in {"Identifier", "Constant"} -> TRUE
      [] e.node = "UnaryOperator" -> IsExpression(e.expr)
      [] e.node = "BinaryOperator" -> IsExpression(e.lhs) /\ IsExpression(e.rhs)
      [] OTHER -> FALSE

\* every expression slot the grammar requires below statement n is filled;
\* a declaration's initializer, when there is one, is an expression
RECURSIVE SlotsFilled(_)
SlotsFilled(n) ==
    CASE n.node \in {"ModuleDefinition", "StatementBlock"} ->
            \A i \in 1..Len(n.statements) : SlotsFilled(n.statements[i])
      [] n.node \in {"ExpressionStatement", "ReturnStatement"} -> IsExpression(n.expr)
      [] n.node = "IfStatement" ->
            /\ IsExpression(n.condition)
            /\ SlotsFilled(n.if_clause)
            /\ n.else_clause = NoneE \/ SlotsFilled(n.else_clause)
      [] n.node = "VariableDeclaration" ->
            n.initializer = NoneE \/ IsExpression(n.initializer)
      [] n.node = "FunctionDefinition" -> n.code = NoneE \/ SlotsFilled(n.code)
      [] OTHER -> TRUE

\* the text is one declaration  var ... = ... ;  written with `=`
IsInitializedDeclaration(w) ==
    /\ w # <<>>
    /\ w[1] = kw_var
    /\ \E i \in 1..Len(w) : w[i] = <<"=">>

\* C15: when parse_module has returned and the diagnostics list is empty,
\* every required expression slot of the module holds an Expression node:
\* the expression of each expression and return statement, each if
\* condition, every operand of every unary and binary operator, and the
\* initializer of a declaration written with `=`.
C15_NoAbsentExpression ==
    (status = "done" /\ errors = <<>>)
        => /\ SlotsFilled(ret)
           /\ IsInitializedDeclaration(Lexemes(source))
                => /\ Len(ret.statements) = 1
                   /\ ret.statements[1].node = "VariableDeclaration"
                   /\ IsExpression(ret.statements[1].initializer)
====
